---- MODULE Spec2Model ----
(***************************************************************************)
(* Watershed paint-by-numbers generator: the segmentation pipeline         *)
(* (WatershedProcessor.process and its stages), the batch queue            *)
(* (BatchProcessor) and the batch handler of the application (App).        *)
(*                                                                         *)
(* JavaScript runs one handler at a time and a handler gives up the thread *)
(* only at an await.  The variable thread holds the run (or batch call)    *)
(* that currently owns the thread, or Nobody between handlers; the stages  *)
(* of one synchronous stretch are separate steps chained by thread.        *)
(***************************************************************************)
EXTENDS Integers, Sequences, FiniteSets, TLC

(***************************************************************************)
(* Bounds of the model                                                     *)
(***************************************************************************)
\* largest colour count a run is called with (0 is the invalid count)
MaxK == 2
\* columns and rows of the image a run works on
GridW == 6
GridH == 3
\* largest minRegionSize a call passes
MaxMinSize == 3
\* extractRegions checked alone: columns of the label map, largest label
ExW == 2
MaxLabel == 2
\* batch: files in one selection, items ever queued, arrays this.queue was set to
MaxList == 1
MaxFiles == 2
MaxArrays == 2
\* peaks of the distance image the distance-transform createMarkers works on
MaxPeaks == 9
\* contours: number of points, largest coordinate
MaxPoints == 4
MaxCoord == 1
\* resizes: largest image side and largest maxSize
MaxSide == 6

\* the two calls of process() made on one WatershedProcessor object
Runs == {1, 2}
Nobody == 0

\* option values: None is "not set / undefined", Some(x) a value
None == {}
Some(x) == {x}
The(s) == CHOOSE x \in s : TRUE

VARIABLES
    cvLoaded,   \* typeof cv !== 'undefined' && cv.Mat: OpenCV.js has loaded
    thread,     \* who owns the JavaScript thread: a run, or Nobody
    pc,         \* pc[r]: position of run r in process()
    args,       \* args[r]: Some(arguments of the call) once called
    pre,        \* pre[r]: Some([w, h]) of the preprocessed ImageData
    labels,     \* labels[r]: per-pixel cluster index returned by quantize (labels Mat)
    palette,    \* palette[r]: Some(sequence of palette entries)
    markers,    \* content of the marker Mat when createMarkers returned
    built,      \* the markerToColor object createMarkers of run r built
    mtc,        \* this._markerToColor of the shared processor object
    wmap,       \* content of the marker Mat after cv.watershed
    used,       \* the markerToColor object extractRegions of run r read
    regions,    \* regions[r]: Some(region list) returned by extractRegions
    live,       \* live[r]: OpenCV buffers of run r allocated and not deleted
    rel,        \* rel[r][b]: number of times buffer b was deleted
    err,        \* err[r]: the message prefix of the error process() threw
    progress,   \* progress[r]: percents handed to onProgress so far
    overlapped, \* history: some call was made while another run was in flight
    items,      \* items[id]: the queue item objects ever created by addFiles
    arrays,     \* arrays[a]: content of the a-th array created for this.queue
    queue,      \* this.queue of the BatchProcessor: the array it refers to
    results,    \* this.results: the items pushed by processBatch
    isProcessing,   \* this.isProcessing
    currentIndex,   \* this.currentIndex
    thrown,     \* message of the last Error a BatchProcessor method threw
    loops,      \* loops[l]: locals and position of an invocation of processBatch
    input,      \* the arguments of a function called on its own, None before
    output      \* what that function returned, None until it has

runVars == <<cvLoaded, thread, pc, args, pre, labels, palette, markers, built, mtc,
             wmap, used, regions, live, rel, err, progress, overlapped>>

batchVars == <<items, arrays, queue, results, isProcessing, currentIndex,
               thrown, loops>>

callVars == <<input, output>>

vars == <<runVars, batchVars, callVars>>

(***************************************************************************)
(* Images and label maps.  A Mat of w columns and h rows is a function on  *)
(* the pixel indices y * w + x, as the code indexes them.                  *)
(***************************************************************************)
Pixels(w, h) == 0 .. (w * h - 1)
XOf(p, w) == p % w
YOf(p, w) == p \div w

Max2(a, b) == IF a >= b THEN a ELSE b
Min2(a, b) == IF a <= b THEN a ELSE b

RECURSIVE SumSeq(_)
SumSeq(s) == IF s = <<>> THEN 0 ELSE Head(s) + SumSeq(Tail(s))

RECURSIVE SetToSeq(_)
\* the elements of a finite set of integers in increasing order
SetToSeq(S) ==
    IF S = {} THEN <<>>
    ELSE LET m == CHOOSE x \in S : \A y \in S : x <= y
         IN <<m>> \o SetToSeq(S \ {m})

(***************************************************************************)
(* extractRegions                                                          *)
(***************************************************************************)
\* uniqueLabels: the positive labels, in the order the raster scan adds them
\* to the Set (a Set iterates in insertion order)
IsRegionLabelNonZero(label) == label # 0
IsRegionLabel(label) == label > 0

UniqueLabels(wm) ==
    LET pos == { wm[p] : p \in { q \in DOMAIN wm : IsRegionLabel(wm[q]) } }
        first(l) == CHOOSE p \in DOMAIN wm :
                        wm[p] = l /\ \A q \in DOMAIN wm : wm[q] = l => p <= q
        firsts == { first(l) : l \in pos }
        order == SetToSeq(firsts)
    IN [i \in 1 .. Len(order) |-> wm[order[i]]]

\* the full raster scans of the label map one call makes: the scan that
\* collects uniqueLabels, then the nested y/x loop inside uniqueLabels.forEach,
\* which runs once for every label of the set
LabelMapScans(wm) == 1 + Len(UniqueLabels(wm))

\* mask of one label: the pixels the inner scan sets to 255
MaskOf(wm, label) == { p \in DOMAIN wm : wm[p] = label }

\* "if (pixelCount < minRegionSize) return"
TooSmallLe(pixelCount, minRegionSize) == pixelCount <= minRegionSize
TooSmall(pixelCount, minRegionSize) == pixelCount < minRegionSize

\* "markerToColor[label] || 1", then the clamp to the palette range
ColorIdOf(m2c, label, palLen) ==
    LET raw == IF label \in DOMAIN m2c /\ m2c[label] # 0 THEN m2c[label] ELSE 1
    IN IF raw < 1 \/ raw > palLen THEN 1 ELSE raw

\* one region record; color is palette[colorId - 1], undefined (None) when
\* the palette has no such entry
RegionOf(wm, label, m2c, pal) ==
    LET cid == ColorIdOf(m2c, label, Len(pal))
    IN [id |-> label,
        mask |-> MaskOf(wm, label),
        colorId |-> cid,
        color |-> IF cid \in 1 .. Len(pal) THEN Some(pal[cid]) ELSE None]

RECURSIVE RegionsFrom(_, _, _, _, _)
\* an extraction that gives the pixels of a dropped label to the next region
RegionsFromMerging(labs, wm, m2c, pal, minRegionSize) ==
    IF labs = <<>> THEN <<>>
    ELSE LET label == Head(labs)
             rest == RegionsFrom(Tail(labs), wm, m2c, pal, minRegionSize)
         IN IF TooSmall(Cardinality(MaskOf(wm, label)), minRegionSize)
            THEN IF rest = <<>> THEN rest
                 ELSE <<[rest[1] EXCEPT !.mask = @ \cup MaskOf(wm, label)]>> \o Tail(rest)
            ELSE <<RegionOf(wm, label, m2c, pal)>> \o rest

RegionsFrom(labs, wm, m2c, pal, minRegionSize) ==
    IF labs = <<>> THEN <<>>
    ELSE LET label == Head(labs)
             rest == RegionsFrom(Tail(labs), wm, m2c, pal, minRegionSize)
         IN IF TooSmall(Cardinality(MaskOf(wm, label)), minRegionSize)
            THEN rest
            ELSE <<RegionOf(wm, label, m2c, pal)>> \o rest

\* "this._markerToColor || {}": an unset field reads as the empty map
ReadMarkerToColor(field) == IF field = None THEN <<>> ELSE The(field)

ExtractRegionsOf(wm, field, pal, minRegionSize) ==
    RegionsFrom(UniqueLabels(wm), wm, ReadMarkerToColor(field), pal, minRegionSize)

(***************************************************************************)
(* OpenCV operations the pipeline calls                                    *)
(***************************************************************************)
InImage(x, y, w, h) == x >= 0 /\ x < w /\ y >= 0 /\ y < h

\* cv.getStructuringElement(MORPH_ELLIPSE, (2r+1) x (2r+1)): row dy holds the
\* columns |dx| <= round(sqrt(r*r - dy*dy))
RoundSqrt(v, r) ==
    CHOOSE d \in 0 .. r :
        /\ (d = 0 \/ (2 * d - 1) * (2 * d - 1) <= 4 * v)
        /\ 4 * v < (2 * d + 1) * (2 * d + 1)

EllipseKernel(r) ==
    { o \in (-r .. r) \X (-r .. r) :
        LET dx == o[1]
            dy == o[2]
            half == RoundSqrt(r * r - dy * dy, r)
        IN dx >= -half /\ dx <= half }

\* cv.erode(mask, mask, kernel) with the default border: a pixel stays set
\* when every kernel position that falls inside the image is set
Erode(mask, w, h, r) ==
    { p \in mask :
        \A o \in EllipseKernel(r) :
            LET x == XOf(p, w) + o[1]
                y == YOf(p, w) + o[2]
            IN InImage(x, y, w, h) => (y * w + x) \in mask }

Adj4(p, q, w) ==
    LET dx == XOf(p, w) - XOf(q, w)
        dy == YOf(p, w) - YOf(q, w)
    IN (dx = 0 /\ dy \in {-1, 1}) \/ (dy = 0 /\ dx \in {-1, 1})

Adj8(p, q, w) ==
    LET dx == XOf(p, w) - XOf(q, w)
        dy == YOf(p, w) - YOf(q, w)
    IN p # q /\ dx \in {-1, 0, 1} /\ dy \in {-1, 0, 1}

RECURSIVE Flood8(_, _, _)
\* the pixels of S reachable from cur through 8-neighbours inside S
Flood8(S, cur, w) ==
    LET nxt == cur \cup { q \in S : \E p \in cur : Adj8(p, q, w) }
    IN IF nxt = cur THEN cur ELSE Flood8(S, nxt, w)

RECURSIVE Flood4(_, _, _)
Flood4(S, cur, w) ==
    LET nxt == cur \cup { q \in S : \E p \in cur : Adj4(p, q, w) }
    IN IF nxt = cur THEN cur ELSE Flood4(S, nxt, w)

RECURSIVE ConnectedComponents(_, _)
\* cv.connectedComponents(mask, colorLabels, 8): the components of the mask,
\* numbered 1.. in the raster order of their first pixel
ConnectedComponents(S, w) ==
    IF S = {} THEN <<>>
    ELSE LET m == CHOOSE x \in S : \A y \in S : x <= y
             c == Flood8(S, {m}, w)
         IN <<c>> \o ConnectedComponents(S \ c, w)

(***************************************************************************)
(* extractRegions: the centroid of a region, from the moments of the      *)
(* contour cv.findContours traces around its mask                          *)
(***************************************************************************)
\* contours.get(0) for a mask at most two rows high: the outer border of
\* the component of its first pixel, along the lowest pixel of every column
\* from left to right and back along the highest.  (CHAIN_APPROX_SIMPLE drops
\* the points inside the straight runs, which leaves the moments unchanged.)
FindContour(mask, w) ==
    LET first == CHOOSE p \in mask : \A q \in mask : p <= q
        comp == Flood8(mask, {first}, w)
        cols == SetToSeq({ XOf(p, w) : p \in comp })
        n == Len(cols)
        rowsOf(x) == { YOf(p, w) : p \in { q \in comp : XOf(q, w) = x } }
        lowest(x) == CHOOSE y \in rowsOf(x) : \A z \in rowsOf(x) : z <= y
        highest(x) == CHOOSE y \in rowsOf(x) : \A z \in rowsOf(x) : y <= z
    IN [k \in 1 .. 2 * n |->
          IF k <= n THEN [x |-> cols[k], y |-> lowest(cols[k])]
          ELSE [x |-> cols[2 * n + 1 - k], y |-> highest(cols[2 * n + 1 - k])]]

\* cv.moments(contour), by Green's formula over the closed polygon: twice
\* m00, six times m10 and six times m01, with the sign of a clockwise contour
\* turned as cv.moments turns it
Moments(contour) ==
    LET n == Len(contour)
        nxt(i) == contour[(i % n) + 1]
        cross(i) == contour[i].x * nxt(i).y - nxt(i).x * contour[i].y
        a2 == SumSeq([i \in 1 .. n |-> cross(i)])
        sx == SumSeq([i \in 1 .. n |-> (contour[i].x + nxt(i).x) * cross(i)])
        sy == SumSeq([i \in 1 .. n |-> (contour[i].y + nxt(i).y) * cross(i)])
    IN IF a2 < 0 THEN [m00x2 |-> -a2, m10x6 |-> -sx, m01x6 |-> -sy]
       ELSE [m00x2 |-> a2, m10x6 |-> sx, m01x6 |-> sy]

\* Math.round(m / m00): None stands for the NaN of 0 / 0 and for the
\* Infinity of a division of something else by 0
RoundedRatio(mx6, m00x2) ==
    IF m00x2 = 0 THEN None
    ELSE Some((2 * mx6 + 3 * m00x2) \div (6 * m00x2))

\* the centroid extractRegions stores in a region
CentroidOf(mask, w) ==
    LET moments == Moments(FindContour(mask, w))
    IN [x |-> RoundedRatio(moments.m10x6, moments.m00x2),
        y |-> RoundedRatio(moments.m01x6, moments.m00x2)]

(***************************************************************************)
(* createMarkers                                                           *)
(***************************************************************************)
\* "erodeSizes[complexity] || 3"
ErodeSizeNoneForExtreme(complexity) ==
    CASE complexity = "low" -> 5
      [] complexity = "medium" -> 3
      [] complexity = "high" -> 2
      [] complexity = "extreme" -> 0
      [] OTHER -> 3

ErodeSize(complexity) ==
    CASE complexity = "low" -> 5
      [] complexity = "medium" -> 3
      [] complexity = "high" -> 2
      [] complexity = "extreme" -> 1
      [] OTHER -> 3

\* "markerToColor[markerLabel] = colorIdx + 1"
PaletteIndexZeroBased(colorIdx) == colorIdx
PaletteIndex(colorIdx) == colorIdx + 1

RECURSIVE MarkersFrom(_, _, _, _, _, _, _)
\* a loop that numbers the components of every colour from 1 again
MarkersFromRestarting(colorIdx, numColors, lab, w, h, r, acc) ==
    IF colorIdx >= numColors THEN acc
    ELSE LET mask == { p \in DOMAIN lab : lab[p] = colorIdx }
             comps == ConnectedComponents(Erode(mask, w, h, r), w)
             n == Len(comps)
             mk == [p \in DOMAIN lab |->
                      IF \E c \in 1 .. n : p \in comps[c]
                      THEN CHOOSE c \in 1 .. n : p \in comps[c]
                      ELSE acc.markers[p]]
             m2c == [l \in 1 .. Max2(n, Len(acc.markerToColor)) |->
                      IF l <= n THEN PaletteIndex(colorIdx)
                      ELSE acc.markerToColor[l]]
         IN MarkersFrom(colorIdx + 1, numColors, lab, w, h, r,
                        [markers |-> mk, markerToColor |-> m2c,
                         nextLabel |-> 1])

\* the loop over colorIdx: acc is [markers, markerToColor, nextLabel]
MarkersFrom(colorIdx, numColors, lab, w, h, r, acc) ==
    IF colorIdx >= numColors THEN acc
    ELSE LET mask == { p \in DOMAIN lab : lab[p] = colorIdx }
             comps == ConnectedComponents(Erode(mask, w, h, r), w)
             n == Len(comps)
             next == acc.nextLabel
             mk == [p \in DOMAIN lab |->
                      IF \E c \in 1 .. n : p \in comps[c]
                      THEN next + (CHOOSE c \in 1 .. n : p \in comps[c]) - 1
                      ELSE acc.markers[p]]
             m2c == [l \in 1 .. (next + n - 1) |->
                      IF l < next THEN acc.markerToColor[l]
                      ELSE PaletteIndex(colorIdx)]
         IN MarkersFrom(colorIdx + 1, numColors, lab, w, h, r,
                        [markers |-> mk, markerToColor |-> m2c,
                         nextLabel |-> next + n])

CreateMarkersOf(lab, w, h, numColors, complexity) ==
    MarkersFrom(0, numColors, lab, w, h, ErodeSize(complexity),
                [markers |-> [p \in DOMAIN lab |-> 0],
                 markerToColor |-> <<>>,
                 nextLabel |-> 1])

(***************************************************************************)
(* cv.watershed                                                            *)
(***************************************************************************)
Interior(w, h) ==
    { p \in Pixels(w, h) :
        XOf(p, w) >= 1 /\ XOf(p, w) <= w - 2 /\ YOf(p, w) >= 1 /\ YOf(p, w) <= h - 2 }

\* The marker Mat after cv.watershed(rgb, markers).  The image border is set
\* to the sentinel -1 first, so only seeds off the border flood.  A seeded
\* pixel keeps its id.  An unknown pixel that a flood reaches takes the id of
\* a 4-neighbour, or -1 where two ids meet; which front arrives first depends
\* on the gradient of the image, so every outcome the floods allow is taken.
\* A pixel no flood reaches stays 0.
WatershedResults(mk, w, h) ==
    LET inner == Interior(w, h)
        seeded == { p \in inner : mk[p] > 0 }
        unknown == inner \ seeded
        ids == { mk[p] : p \in seeded }
        reach == Flood4(inner, seeded, w)
        ok(wm) ==
            \A p \in unknown :
                /\ (p \notin reach) <=> (wm[p] = 0)
                /\ wm[p] > 0 =>
                     /\ p \in Flood4({ q \in inner : wm[q] = wm[p] },
                                     { q \in seeded : mk[q] = wm[p] }, w)
                     /\ \A q \in seeded : Adj4(p, q, w) => mk[q] = wm[p]
                /\ wm[p] = -1 =>
                     \E q1, q2 \in inner :
                        /\ Adj4(p, q1, w) /\ Adj4(p, q2, w)
                        /\ wm[q1] > 0 /\ wm[q2] > 0 /\ wm[q1] # wm[q2]
        cand == { f \in [unknown -> ids \cup {-1, 0}] :
                    ok([p \in Pixels(w, h) |->
                          IF p \in unknown THEN f[p]
                          ELSE IF p \in seeded THEN mk[p] ELSE -1]) }
    IN { [p \in Pixels(w, h) |->
            IF p \in unknown THEN f[p]
            ELSE IF p \in seeded THEN mk[p] ELSE -1] : f \in cand }

(***************************************************************************)
(* ColorQuantizer.quantize                                                 *)
(***************************************************************************)
\* cv.cvtColor rejects an empty Mat
CvtColorAccepts(w, h) == w > 0 /\ h > 0

\* cv.kmeans requires K > 0 and at least K samples
KmeansAcceptsAnyK(numColors, numPixels) == numPixels >= numColors
KmeansAccepts(numColors, numPixels) == numColors > 0 /\ numPixels >= numColors

\* The cluster index of every pixel that cv.kmeans may return for the images
\* the model draws: one flat colour, vertical bands, a checkerboard, a
\* diagonal line of one colour on a ground of another.
LabelMaps(w, h, numColors) ==
    { [p \in Pixels(w, h) |-> c] : c \in 0 .. (numColors - 1) }
    \cup { [p \in Pixels(w, h) |-> (XOf(p, w) * numColors) \div w] }
    \cup { [p \in Pixels(w, h) |-> (XOf(p, w) + YOf(p, w)) % Max2(numColors, 1)] }
    \cup { [p \in Pixels(w, h) |-> IF XOf(p, w) = YOf(p, w) THEN c ELSE 1 - c] :
              c \in (IF numColors >= 2 THEN {0, 1} ELSE {}) }

\* palette entry i + 1 is built from the pixels of cluster i; the colour
\* average is stood for by the number of pixels it is taken over
PaletteOf(lab, numColors) ==
    [i \in 1 .. numColors |->
        [id |-> i, count |-> Cardinality({ p \in DOMAIN lab : lab[p] = i - 1 })]]

(***************************************************************************)
(* WatershedProcessor.preprocessImage                                      *)
(***************************************************************************)
NeedsResize(w, h, maxSize) == h > maxSize \/ w > maxSize

\* "Math.floor(rgb.cols * scale)" with scale = maxSize / Math.max(rows, cols)
Scaled(side, w, h, maxSize) == (side * maxSize) \div Max2(w, h)

PreprocessedSize(w, h, maxSize) ==
    IF NeedsResize(w, h, maxSize)
    THEN [w |-> Scaled(w, w, h, maxSize), h |-> Scaled(h, w, h, maxSize)]
    ELSE [w |-> w, h |-> h]

\* cv.resize rejects a target size with a zero side
ResizeAccepts(size) == size.w > 0 /\ size.h > 0

\* the Mat bilateralFilter reads: the resized one, or rgb itself
ResizedBuffer(w, h, maxSize) ==
    IF NeedsResize(w, h, maxSize) THEN "pp_resized" ELSE "pp_rgb"

\* buffers allocated and not yet deleted when the named call throws
PreprocessLeftover(point, w, h, maxSize) ==
    CASE point = "cvtColor" -> {"pp_src", "pp_rgb"}
      [] point = "resize" -> {"pp_rgb", "pp_resized"}
      [] point = "bilateralFilter" -> {ResizedBuffer(w, h, maxSize), "pp_filtered"}
      [] point = "toRGBA" -> {ResizedBuffer(w, h, maxSize), "pp_filtered", "pp_rgba"}

\* the calls of preprocessImage that can throw for this input
PreprocessThrowPoints(w, h, maxSize) ==
    {"cvtColor"}
    \cup (IF CvtColorAccepts(w, h) /\ NeedsResize(w, h, maxSize) THEN {"resize"} ELSE {})
    \cup (IF CvtColorAccepts(w, h)
             /\ (NeedsResize(w, h, maxSize) => ResizeAccepts(PreprocessedSize(w, h, maxSize)))
          THEN {"bilateralFilter", "toRGBA"} ELSE {})

(***************************************************************************)
(* WatershedProcessor.process: the buffers                                 *)
(***************************************************************************)
\* buffers whose deletions are counted (the per-iteration temporaries of
\* createMarkers and extractRegions are followed in live only)
Counted ==
    {"pp_src", "pp_rgb", "pp_resized", "pp_filtered", "pp_rgba",
     "q_src", "q_rgb", "q_lab", "q_samples", "q_centers",
     "quantized", "labels", "markers", "aw_rgb"}

Deleted(counts, bufs) ==
    [b \in Counted |-> counts[b] + (IF b \in bufs THEN 1 ELSE 0)]

\* what quantize's catch blocks leave allocated
QuantizeLeftover(point) ==
    CASE point = "rgb" -> {"q_rgb"}
      [] point = "lab" -> {"q_lab"}
      [] point = "kmeans" -> {}

QuantizeCatchDeletes(point) ==
    CASE point = "rgb" -> {"q_src"}
      [] point = "lab" -> {"q_src", "q_rgb"}
      [] point = "kmeans" -> {"q_src", "q_rgb", "q_lab", "q_samples", "labels", "q_centers"}

\* the catch blocks of process(): what each deletes before rethrowing
MarkerCatchDeletes == {"quantized", "labels"}
WatershedCatchDeletes == {"quantized", "labels", "markers"}
ExtractCatchDeletes == {"quantized", "labels", "markers"}
FinalDeletes == {"quantized", "labels", "markers"}

\* createMarkers throwing inside the loop (cv.erode of a colour's mask)
MarkerLeftover == {"markers", "cm_mask", "cm_kernel"}
\* extractRegions throwing in cv.findContours of a label
ExtractLeftover == {"er_mask", "er_contours", "er_hierarchy"}

(***************************************************************************)
(* WatershedProcessor.process: the steps                                   *)
(***************************************************************************)
\* the stages process() awaits: only "await this.preprocessImage(...)"
AwaitsEveryStage == {"pre", "quantize", "markers", "watershed", "extract"}
Awaits == {"pre"}

\* who owns the thread after run r completed a stage
After(r, stage) == IF stage \in Awaits THEN Nobody ELSE r

Upd(f, r, v) == [f EXCEPT ![r] = v]

MayStep(r) == thread \in {Nobody, r}

CallOf(w, h, k, c, m) ==
    [w |-> w, h |-> h, colorCount |-> k, complexity |-> c,
     minRegionSize |-> m, maxSize |-> GridW]

\* images a call passes: empty ones, one of the working size, one larger
\* than maxSize
InputSizes == {<<0, 0>>, <<0, GridH>>, <<GridW, GridH>>, <<2 * GridW, 2 * GridH>>}
\* the four settings, and one that is none of them
Complexities == {"low", "medium", "high", "extreme", "auto"}

\* the calls of a run checked alone
CallArgs ==
    { CallOf(sz[1], sz[2], k, c, m) :
        sz \in InputSizes, k \in -1 .. MaxK, c \in Complexities,
        m \in 1 .. MaxMinSize }

\* the calls of two runs that overlap on one processor object
OverlapArgs ==
    { CallOf(GridW, GridH, k, "extreme", 1) : k \in 1 .. MaxK }

\* process(imageData, options, onProgress) is called: updateProgress(0)
Call(r, A) ==
    /\ cvLoaded
    /\ thread = Nobody
    /\ pc[r] = "idle"
    /\ \E a \in A : args' = Upd(args, r, Some(a))
    /\ thread' = r
    /\ pc' = Upd(pc, r, "pre")
    /\ progress' = Upd(progress, r, <<0>>)
    /\ overlapped' = (overlapped \/ \E o \in Runs \ {r} :
                                      pc[o] \notin {"idle", "resolved", "rejected"})
    /\ UNCHANGED <<pre, labels, palette, markers, built, mtc, wmap, used,
                   regions, live, rel, err>>
    /\ UNCHANGED <<cvLoaded, batchVars, callVars>>

\* process() is called before OpenCV.js has loaded: the guard at its top throws
CallBeforeOpenCV(r, A) ==
    /\ ~cvLoaded
    /\ thread = Nobody
    /\ pc[r] = "idle"
    /\ \E a \in A : args' = Upd(args, r, Some(a))
    /\ pc' = Upd(pc, r, "rejected")
    /\ err' = Upd(err, r, "OpenCV.js is not loaded")
    /\ UNCHANGED <<thread, pre, labels, palette, markers, built, mtc, wmap, used,
                   regions, live, rel, progress, overlapped>>
    /\ UNCHANGED <<cvLoaded, batchVars, callVars>>

\* the opencv-ready event: the library has loaded
OpenCVReady ==
    /\ ~cvLoaded
    /\ cvLoaded' = TRUE
    /\ UNCHANGED <<thread, pc, args, pre, labels, palette, markers, built, mtc,
                   wmap, used, regions, live, rel, err, progress, overlapped>>
    /\ UNCHANGED <<batchVars, callVars>>

\* preprocessImage runs to its end; process() then waits on its promise
PreprocessOk(r) ==
    /\ thread = r
    /\ pc[r] = "pre"
    /\ LET a == The(args[r])
           size == PreprocessedSize(a.w, a.h, a.maxSize)
       IN /\ CvtColorAccepts(a.w, a.h)
          /\ NeedsResize(a.w, a.h, a.maxSize) => ResizeAccepts(size)
          /\ pre' = Upd(pre, r, Some(size))
          /\ rel' = Upd(rel, r, Deleted(rel[r],
                       {"pp_src", "pp_rgb", ResizedBuffer(a.w, a.h, a.maxSize),
                        "pp_filtered", "pp_rgba"}))
    /\ pc' = Upd(pc, r, "quantize")
    /\ thread' = After(r, "pre")
    /\ UNCHANGED <<args, labels, palette, markers, built, mtc, wmap, used,
                   regions, live, err, progress, overlapped>>
    /\ UNCHANGED <<cvLoaded, batchVars, callVars>>

\* an OpenCV call of preprocessImage throws: nothing is deleted on the way out
PreprocessThrows(r) ==
    /\ thread = r
    /\ pc[r] = "pre"
    /\ LET a == The(args[r])
       IN \E point \in PreprocessThrowPoints(a.w, a.h, a.maxSize) :
            /\ live' = Upd(live, r, live[r] \cup PreprocessLeftover(point, a.w, a.h, a.maxSize))
            /\ rel' = Upd(rel, r, Deleted(rel[r],
                         IF point = "cvtColor" THEN {}
                         ELSE IF point = "resize" THEN {"pp_src"}
                         ELSE IF NeedsResize(a.w, a.h, a.maxSize)
                              THEN {"pp_src", "pp_rgb"} ELSE {"pp_src"}))
    /\ pc' = Upd(pc, r, "preThrown")
    /\ thread' = After(r, "pre")
    /\ UNCHANGED <<args, pre, labels, palette, markers, built, mtc, wmap, used,
                   regions, err, progress, overlapped>>
    /\ UNCHANGED <<cvLoaded, batchVars, callVars>>

\* the await rethrows; "throw new Error('Image preprocessing failed: ' + e)"
PreprocessRejected(r) ==
    /\ MayStep(r)
    /\ pc[r] = "preThrown"
    /\ pc' = Upd(pc, r, "rejected")
    /\ err' = Upd(err, r, "Image preprocessing failed")
    /\ thread' = Nobody
    /\ UNCHANGED <<args, pre, labels, palette, markers, built, mtc, wmap, used,
                   regions, live, rel, progress, overlapped>>
    /\ UNCHANGED <<cvLoaded, batchVars, callVars>>

\* updateProgress(20); quantize returns {quantized, palette, labels}
QuantizeOk(r) ==
    /\ MayStep(r)
    /\ pc[r] = "quantize"
    /\ LET a == The(args[r])
           size == The(pre[r])
       IN /\ CvtColorAccepts(size.w, size.h)
          /\ KmeansAccepts(a.colorCount, size.w * size.h)
          /\ \E lab \in LabelMaps(size.w, size.h, a.colorCount) :
                /\ labels' = Upd(labels, r, Some(lab))
                /\ palette' = Upd(palette, r, Some(PaletteOf(lab, a.colorCount)))
    /\ live' = Upd(live, r, live[r] \cup {"quantized", "labels"})
    /\ rel' = Upd(rel, r, Deleted(rel[r],
                 {"q_src", "q_rgb", "q_lab", "q_samples", "q_centers"}))
    /\ progress' = Upd(progress, r, Append(progress[r], 20))
    /\ pc' = Upd(pc, r, "markers")
    /\ thread' = After(r, "quantize")
    /\ UNCHANGED <<args, pre, markers, built, mtc, wmap, used, regions, err, overlapped>>
    /\ UNCHANGED <<cvLoaded, batchVars, callVars>>

\* a call inside quantize throws; its catch block deletes and rethrows, and
\* process() rethrows "Color quantization failed"
QuantizeThrows(r) ==
    /\ MayStep(r)
    /\ pc[r] = "quantize"
    /\ \E point \in {"rgb", "lab", "kmeans"} :
        /\ live' = Upd(live, r, live[r] \cup QuantizeLeftover(point))
        /\ rel' = Upd(rel, r, Deleted(rel[r], QuantizeCatchDeletes(point)))
    /\ progress' = Upd(progress, r, Append(progress[r], 20))
    /\ pc' = Upd(pc, r, "rejected")
    /\ err' = Upd(err, r, "Color quantization failed")
    /\ thread' = Nobody
    /\ UNCHANGED <<args, pre, labels, palette, markers, built, mtc, wmap, used,
                   regions, overlapped>>
    /\ UNCHANGED <<cvLoaded, batchVars, callVars>>

\* updateProgress(40); createMarkers returns the markers and stores the
\* marker-to-colour map on the processor object
CreateMarkersOk(r) ==
    /\ MayStep(r)
    /\ pc[r] = "markers"
    /\ LET a == The(args[r])
           size == The(pre[r])
           res == CreateMarkersOf(The(labels[r]), size.w, size.h,
                                  a.colorCount, a.complexity)
       IN /\ markers' = Upd(markers, r, Some(res.markers))
          /\ built' = Upd(built, r, Some(res.markerToColor))
          /\ mtc' = Some(res.markerToColor)
    /\ live' = Upd(live, r, live[r] \cup {"markers"})
    /\ progress' = Upd(progress, r, Append(progress[r], 40))
    /\ pc' = Upd(pc, r, "watershed")
    /\ thread' = After(r, "markers")
    /\ UNCHANGED <<args, pre, labels, palette, wmap, used, regions, rel, err, overlapped>>
    /\ UNCHANGED <<cvLoaded, batchVars, callVars>>

\* createMarkers throws inside its loop; the catch block of process() deletes
\* quantized and labels
CreateMarkersThrows(r) ==
    /\ MayStep(r)
    /\ pc[r] = "markers"
    /\ live' = Upd(live, r, (live[r] \cup MarkerLeftover) \ MarkerCatchDeletes)
    /\ rel' = Upd(rel, r, Deleted(rel[r], MarkerCatchDeletes))
    /\ progress' = Upd(progress, r, Append(progress[r], 40))
    /\ pc' = Upd(pc, r, "rejected")
    /\ err' = Upd(err, r, "Marker creation failed")
    /\ thread' = Nobody
    /\ UNCHANGED <<args, pre, labels, palette, markers, built, mtc, wmap, used,
                   regions, overlapped>>
    /\ UNCHANGED <<cvLoaded, batchVars, callVars>>

\* updateProgress(60); applyWatershed floods the markers in place
ApplyWatershedOk(r) ==
    /\ MayStep(r)
    /\ pc[r] = "watershed"
    /\ LET size == The(pre[r])
       IN \E wm \in WatershedResults(The(markers[r]), size.w, size.h) :
            wmap' = Upd(wmap, r, Some(wm))
    /\ rel' = Upd(rel, r, Deleted(rel[r], {"aw_rgb"}))
    /\ progress' = Upd(progress, r, Append(progress[r], 60))
    /\ pc' = Upd(pc, r, "extract")
    /\ thread' = After(r, "watershed")
    /\ UNCHANGED <<args, pre, labels, palette, markers, built, mtc, used,
                   regions, live, err, overlapped>>
    /\ UNCHANGED <<cvLoaded, batchVars, callVars>>

\* cv.watershed throws: applyWatershed deletes rgb, process() the rest
ApplyWatershedThrows(r) ==
    /\ MayStep(r)
    /\ pc[r] = "watershed"
    /\ live' = Upd(live, r, live[r] \ WatershedCatchDeletes)
    /\ rel' = Upd(rel, r, Deleted(rel[r], WatershedCatchDeletes \cup {"aw_rgb"}))
    /\ progress' = Upd(progress, r, Append(progress[r], 60))
    /\ pc' = Upd(pc, r, "rejected")
    /\ err' = Upd(err, r, "Watershed algorithm failed")
    /\ thread' = Nobody
    /\ UNCHANGED <<args, pre, labels, palette, markers, built, mtc, wmap, used,
                   regions, overlapped>>
    /\ UNCHANGED <<cvLoaded, batchVars, callVars>>

\* updateProgress(80); extractRegions reads this._markerToColor
ExtractRegionsOk(r) ==
    /\ MayStep(r)
    /\ pc[r] = "extract"
    /\ used' = Upd(used, r, mtc)
    /\ regions' = Upd(regions, r,
          Some(ExtractRegionsOf(The(wmap[r]), mtc, The(palette[r]),
                                The(args[r]).minRegionSize)))
    /\ progress' = Upd(progress, r, Append(progress[r], 80))
    /\ pc' = Upd(pc, r, "finish")
    /\ thread' = After(r, "extract")
    /\ UNCHANGED <<args, pre, labels, palette, markers, built, mtc, wmap,
                   live, rel, err, overlapped>>
    /\ UNCHANGED <<cvLoaded, batchVars, callVars>>

\* a failing extraction that reports completion before it throws
ExtractRegionsThrowsAfterReport(r) ==
    /\ MayStep(r)
    /\ pc[r] = "extract"
    /\ ExtractRegionsOf(The(wmap[r]), mtc, The(palette[r]),
                        The(args[r]).minRegionSize) # <<>>
    /\ used' = Upd(used, r, mtc)
    /\ live' = Upd(live, r, (live[r] \cup ExtractLeftover) \ ExtractCatchDeletes)
    /\ rel' = Upd(rel, r, Deleted(rel[r], ExtractCatchDeletes))
    /\ progress' = Upd(progress, r, progress[r] \o <<80, 100>>)
    /\ pc' = Upd(pc, r, "rejected")
    /\ err' = Upd(err, r, "Region extraction failed")
    /\ thread' = Nobody
    /\ UNCHANGED <<args, pre, labels, palette, markers, built, mtc, wmap,
                   regions, overlapped>>
    /\ UNCHANGED <<cvLoaded, batchVars, callVars>>

\* cv.findContours throws for a label that passed the size filter
ExtractRegionsThrows(r) ==
    /\ MayStep(r)
    /\ pc[r] = "extract"
    /\ ExtractRegionsOf(The(wmap[r]), mtc, The(palette[r]),
                        The(args[r]).minRegionSize) # <<>>
    /\ used' = Upd(used, r, mtc)
    /\ live' = Upd(live, r, (live[r] \cup ExtractLeftover) \ ExtractCatchDeletes)
    /\ rel' = Upd(rel, r, Deleted(rel[r], ExtractCatchDeletes))
    /\ progress' = Upd(progress, r, Append(progress[r], 80))
    /\ pc' = Upd(pc, r, "rejected")
    /\ err' = Upd(err, r, "Region extraction failed")
    /\ thread' = Nobody
    /\ UNCHANGED <<args, pre, labels, palette, markers, built, mtc, wmap,
                   regions, overlapped>>
    /\ UNCHANGED <<cvLoaded, batchVars, callVars>>

\* updateProgress(100), the final deletes, return {regions, palette, width, height}
FinishThrowingOnNoRegions(r) ==
    /\ MayStep(r)
    /\ pc[r] = "finish"
    /\ live' = Upd(live, r, live[r] \ FinalDeletes)
    /\ rel' = Upd(rel, r, Deleted(rel[r], FinalDeletes))
    /\ IF The(regions[r]) = <<>>
       THEN /\ pc' = Upd(pc, r, "rejected")
            /\ err' = Upd(err, r, "No regions found")
            /\ UNCHANGED progress
       ELSE /\ pc' = Upd(pc, r, "resolved")
            /\ progress' = Upd(progress, r, Append(progress[r], 100))
            /\ UNCHANGED err
    /\ thread' = Nobody
    /\ UNCHANGED <<args, pre, labels, palette, markers, built, mtc, wmap, used,
                   regions, overlapped>>
    /\ UNCHANGED <<cvLoaded, batchVars, callVars>>

Finish(r) ==
    /\ MayStep(r)
    /\ pc[r] = "finish"
    /\ live' = Upd(live, r, live[r] \ FinalDeletes)
    /\ rel' = Upd(rel, r, Deleted(rel[r], FinalDeletes))
    /\ progress' = Upd(progress, r, Append(progress[r], 100))
    /\ pc' = Upd(pc, r, "resolved")
    /\ thread' = Nobody
    /\ UNCHANGED <<args, pre, labels, palette, markers, built, mtc, wmap, used,
                   regions, err, overlapped>>
    /\ UNCHANGED <<cvLoaded, batchVars, callVars>>

NoBuffers == [b \in Counted |-> 0]

\* no call of process() has been made
IdleRuns ==
    /\ cvLoaded = FALSE
    /\ thread = Nobody
    /\ pc = [r \in Runs |-> "idle"]
    /\ args = [r \in Runs |-> None]
    /\ pre = [r \in Runs |-> None]
    /\ labels = [r \in Runs |-> None]
    /\ palette = [r \in Runs |-> None]
    /\ markers = [r \in Runs |-> None]
    /\ built = [r \in Runs |-> None]
    /\ mtc = None
    /\ wmap = [r \in Runs |-> None]
    /\ used = [r \in Runs |-> None]
    /\ regions = [r \in Runs |-> None]
    /\ live = [r \in Runs |-> {}]
    /\ rel = [r \in Runs |-> NoBuffers]
    /\ err = [r \in Runs |-> "none"]
    /\ progress = [r \in Runs |-> <<>>]
    /\ overlapped = FALSE

\* invocations of processBatch that may be in flight
Loops == {1, 2}

\* locals of an invocation of processBatch that has not been made
IdleLoop ==
    [pc |-> "idle", i |-> 0, arr |-> 1, item |-> 0, completed |-> 0, errors |-> 0,
     cb |-> {}]

\* a BatchProcessor as its constructor leaves it
EmptyBatch ==
    /\ items = <<>>
    /\ arrays = << <<>> >>
    /\ queue = 1
    /\ results = <<>>
    /\ isProcessing = FALSE
    /\ currentIndex = 0
    /\ thrown = "none"
    /\ loops = [l \in Loops |-> IdleLoop]

\* no function has been called on its own
NoCall == input = None /\ output = None

Init == IdleRuns /\ EmptyBatch /\ NoCall

\* every step of process() after the call
Stage(r) ==
    \/ PreprocessOk(r)
    \/ PreprocessThrows(r)
    \/ PreprocessRejected(r)
    \/ QuantizeOk(r)
    \/ QuantizeThrows(r)
    \/ CreateMarkersOk(r)
    \/ CreateMarkersThrows(r)
    \/ ApplyWatershedOk(r)
    \/ ApplyWatershedThrows(r)
    \/ ExtractRegionsOk(r)
    \/ ExtractRegionsThrows(r)
    \/ Finish(r)

\* one call of process()
Next ==
    \/ OpenCVReady
    \/ Call(1, CallArgs)
    \/ CallBeforeOpenCV(1, CallArgs)
    \/ Stage(1)

Spec == Init /\ [][Next]_vars

\* two calls of process() on one processor, interleaved at the awaits
NextOverlap ==
    \/ OpenCVReady
    \/ \E r \in Runs :
         \/ Call(r, OverlapArgs)
         \/ CallBeforeOpenCV(r, OverlapArgs)
         \/ Stage(r)

SpecOverlap == Init /\ [][NextOverlap]_vars

(***************************************************************************)
(* extractRegions on its own: any label map, any minimum size              *)
(***************************************************************************)
\* marker-to-colour maps the field may hold when extractRegions is called
ExtractMaps ==
    { None,
      Some([l \in 1 .. MaxLabel |-> ((l - 1) % MaxK) + 1]),
      Some([l \in 1 .. MaxLabel |-> MaxK]) }

InitExtract ==
    /\ cvLoaded = TRUE
    /\ thread = Nobody
    /\ pc = [r \in Runs |-> IF r = 1 THEN "extract" ELSE "idle"]
    /\ \E m \in 0 .. MaxMinSize :
         args = [r \in Runs |->
                   IF r = 1 THEN Some(CallOf(ExW, 2, MaxK, "extreme", m)) ELSE None]
    /\ pre = [r \in Runs |-> IF r = 1 THEN Some([w |-> ExW, h |-> 2]) ELSE None]
    /\ labels = [r \in Runs |->
                   IF r = 1 THEN Some([p \in Pixels(ExW, 2) |-> 0]) ELSE None]
    /\ palette = [r \in Runs |->
                    IF r = 1 THEN Some(PaletteOf([p \in Pixels(ExW, 2) |-> 0], MaxK))
                    ELSE None]
    /\ markers = [r \in Runs |-> None]
    /\ built = [r \in Runs |-> None]
    /\ mtc \in ExtractMaps
    /\ \E wm \in [Pixels(ExW, 2) -> -1 .. MaxLabel] :
         wmap = [r \in Runs |-> IF r = 1 THEN Some(wm) ELSE None]
    /\ used = [r \in Runs |-> None]
    /\ regions = [r \in Runs |-> None]
    /\ live = [r \in Runs |-> IF r = 1 THEN {"quantized", "labels", "markers"} ELSE {}]
    /\ rel = [r \in Runs |-> NoBuffers]
    /\ err = [r \in Runs |-> "none"]
    /\ progress = [r \in Runs |-> IF r = 1 THEN <<0, 20, 40, 60>> ELSE <<>>]
    /\ overlapped = FALSE
    /\ EmptyBatch
    /\ NoCall

NextExtract == ExtractRegionsOk(1) \/ ExtractRegionsThrows(1)

SpecExtract == InitExtract /\ [][NextExtract]_vars

(***************************************************************************)
(* BatchProcessor (batchProcessor.js).  Queue items are objects: items[id] *)
(* is the object, arrays and results hold references (ids) to them.        *)
(***************************************************************************)
\* files a user can pick, by what happens to them later:
\*   "image"   loads and yields regions
\*   "flat"    loads, the pipeline resolves with an empty region list
\*   "bad"     loads, the pipeline rejects with an Error
\*   "corrupt" has an image type but FileReader / Image fails to load it
\*   "text"    is not of type image/*
FileKinds == {"image", "flat", "bad", "corrupt", "text"}

IsImageType(file) == file # "text"

\* the FileList of one selection
FileLists ==
    UNION { [1 .. n -> FileKinds] : n \in 1 .. MaxList }

\* the object addFiles pushes for a file
NewItem(file) == [file |-> file, status |-> "pending", result |-> "null", error |-> "null"]

\* what Utils.loadImageFromFile rejects with has no message property:
\* reader.onerror and img.onerror hand the Event itself to reject
MessageOfEvent == "undefined"

\* error.message of the Error the pipeline rejects with
MessageOfPipelineError == "Color quantization failed"

LoadRejects(file) == file = "corrupt"
ProcessRejects(file) == file = "bad"
NoRegions(file) == file = "flat"

\* this.queue
Queue == arrays[queue]

\* Array.prototype.splice(index, 1): a negative index counts from the end
SpliceStart(index, len) ==
    IF index < 0 THEN Max2(len + index, 0) ELSE Min2(index, len)

Splice(seq, index) ==
    LET start == SpliceStart(index, Len(seq))
    IN [k \in 1 .. (IF start < Len(seq) THEN Len(seq) - 1 ELSE Len(seq)) |->
          IF k <= start THEN seq[k] ELSE seq[k + 1]]

\* getStatus()
CountStatus(st) ==
    Cardinality({ k \in 1 .. Len(Queue) : items[Queue[k]].status = st })

GetStatus ==
    [total |-> Len(Queue),
     completed |-> CountStatus("completed"),
     processing |-> CountStatus("processing"),
     pending |-> CountStatus("pending"),
     errors |-> CountStatus("error"),
     isProcessing |-> isProcessing,
     currentIndex |-> currentIndex]

\* addFiles(files)
AddFiles(files) ==
    LET images == SelectSeq(files, IsImageType)
        n == Len(items)
    IN /\ n + Len(images) <= MaxFiles
       /\ items' = items \o [k \in 1 .. Len(images) |-> NewItem(images[k])]
       /\ arrays' = [arrays EXCEPT ![queue] = @ \o [k \in 1 .. Len(images) |-> n + k]]
       /\ UNCHANGED <<queue, results, isProcessing, currentIndex, thrown, loops>>
    /\ UNCHANGED <<runVars, callVars>>

\* onItemComplete as processBatch is given it: the item statuses at which
\* the callback throws (none when it is absent or never throws)
CallbackKinds == SUBSET {"processing", "completed", "error"}

\* error.message of what a callback throws
MessageOfCallbackError == "callback failed"

\* the catch block of the loop body
Caught(its, id, message) ==
    [its EXCEPT ![id].status = "error", ![id].error = message]

RECURSIVE LoopFrom(_, _, _, _, _, _)
RECURSIVE CatchFrom(_, _, _, _, _, _, _)
\* The for loop of BatchProcessor.processBatch from its head at index i, with
\* the item objects its, the results res and the currentIndex cur left by
\* what ran before it, up to the next await, the return or the throw: the
\* locals and the fields as they are then.
LoopFrom(i, item, its, res, cur, cb) ==
    IF i < Len(Queue)
    THEN LET id == Queue[i + 1]
             started == [its EXCEPT ![id].status = "processing"]
         IN IF "processing" \in cb
            THEN CatchFrom(i, id, started, res, cur, cb, MessageOfCallbackError)
            ELSE [pc |-> "load", i |-> i, item |-> id, items |-> started,
                  results |-> res, currentIndex |-> cur, isProcessing |-> TRUE]
    ELSE [pc |-> "done", i |-> i, item |-> item, items |-> its,
          results |-> res, currentIndex |-> cur, isProcessing |-> FALSE]

\* a catch block that ends the batch at the first failure
CatchFromAborting(i, id, its, res, cur, cb, message) ==
    [pc |-> "done", i |-> i, item |-> id, items |-> Caught(its, id, message),
     results |-> res, currentIndex |-> cur, isProcessing |-> FALSE]

\* the catch block at index i, then "this.currentIndex = i + 1" and the next
\* iteration; onItemComplete throwing inside the catch block ends the call
\* with isProcessing still true
CatchFrom(i, id, its, res, cur, cb, message) ==
    LET caught == Caught(its, id, message)
    IN IF "error" \in cb
       THEN [pc |-> "rejected", i |-> i, item |-> id, items |-> caught,
             results |-> res, currentIndex |-> cur, isProcessing |-> TRUE]
       ELSE LoopFrom(i + 1, id, caught, res, i + 1, cb)

\* the item is completed and pushed, then onItemComplete is called
CompletedFrom(i, id, its, res, cur, cb) ==
    LET done == [its EXCEPT ![id].status = "completed", ![id].result = "svg"]
        pushed == Append(res, id)
    IN IF "completed" \in cb
       THEN CatchFrom(i, id, done, pushed, cur, cb, MessageOfCallbackError)
       ELSE LoopFrom(i + 1, id, done, pushed, i + 1, cb)

\* invocation l of processBatch stops at st
LoopHead(l, st, cb) ==
    /\ items' = st.items
    /\ results' = st.results
    /\ currentIndex' = st.currentIndex
    /\ isProcessing' = st.isProcessing
    /\ loops' = [loops EXCEPT ![l] =
                   [@ EXCEPT !.pc = st.pc, !.i = st.i, !.item = st.item,
                             !.arr = queue, !.cb = cb]]

\* processBatch(): the call, up to the first await, the return or the throw
ProcessBatch(l) ==
    /\ ~isProcessing
    /\ loops[l].pc \in {"idle", "done"}
    /\ \E cb \in CallbackKinds :
         LoopHead(l, LoopFrom(0, loops[l].item, items, <<>>, 0, cb), cb)
    /\ UNCHANGED <<arrays, queue, thrown>>
    /\ UNCHANGED <<runVars, callVars>>

\* processBatch() while a batch is running
ProcessBatchRejected ==
    /\ isProcessing
    /\ thrown' = "Batch processing already in progress"
    /\ UNCHANGED <<items, arrays, queue, results, isProcessing, currentIndex, loops>>
    /\ UNCHANGED <<runVars, callVars>>

\* await Utils.loadImageFromFile settles
LoadSettled(l) ==
    LET id == loops[l].item
        i == loops[l].i
        cb == loops[l].cb
    IN /\ loops[l].pc = "load"
       /\ IF LoadRejects(items[id].file)
          THEN LoopHead(l, CatchFrom(i, id, items, results, currentIndex, cb,
                                     MessageOfEvent), cb)
          ELSE /\ loops' = [loops EXCEPT ![l].pc = "process"]
               /\ UNCHANGED <<items, results, isProcessing, currentIndex>>
       /\ UNCHANGED <<arrays, queue, thrown>>
    /\ UNCHANGED <<runVars, callVars>>

\* await processor.process settles
ProcessSettled(l) ==
    LET id == loops[l].item
        i == loops[l].i
        cb == loops[l].cb
    IN /\ loops[l].pc = "process"
       /\ IF ProcessRejects(items[id].file)
          THEN LoopHead(l, CatchFrom(i, id, items, results, currentIndex, cb,
                                     MessageOfPipelineError), cb)
          ELSE LoopHead(l, CompletedFrom(i, id, items, results, currentIndex, cb), cb)
       /\ UNCHANGED <<arrays, queue, thrown>>
    /\ UNCHANGED <<runVars, callVars>>

\* clear()
Clear ==
    /\ ~isProcessing
    /\ Len(arrays) < MaxArrays
    /\ arrays' = Append(arrays, <<>>)
    /\ queue' = Len(arrays) + 1
    /\ results' = <<>>
    /\ currentIndex' = 0
    /\ UNCHANGED <<items, isProcessing, thrown, loops>>
    /\ UNCHANGED <<runVars, callVars>>

ClearRejected ==
    /\ isProcessing
    /\ thrown' = "Cannot clear queue while processing"
    /\ UNCHANGED <<items, arrays, queue, results, isProcessing, currentIndex, loops>>
    /\ UNCHANGED <<runVars, callVars>>

\* removeItem(index)
\* a removeItem without the guard
RemoveItemUnguarded(index) ==
    /\ arrays' = [arrays EXCEPT ![queue] = Splice(@, index)]
    /\ UNCHANGED <<items, queue, results, isProcessing, currentIndex, thrown, loops>>
    /\ UNCHANGED <<runVars, callVars>>

RemoveItem(index) ==
    /\ ~isProcessing
    /\ arrays' = [arrays EXCEPT ![queue] = Splice(@, index)]
    /\ UNCHANGED <<items, queue, results, isProcessing, currentIndex, thrown, loops>>
    /\ UNCHANGED <<runVars, callVars>>

RemoveItemRejected ==
    /\ isProcessing
    /\ thrown' = "Cannot remove item while processing"
    /\ UNCHANGED <<items, arrays, queue, results, isProcessing, currentIndex, loops>>
    /\ UNCHANGED <<runVars, callVars>>

\* any use of one BatchProcessor through its methods
NextBatch ==
    \/ \E files \in FileLists : AddFiles(files)
    \/ ProcessBatch(1)
    \/ ProcessBatchRejected
    \/ LoadSettled(1)
    \/ ProcessSettled(1)
    \/ Clear
    \/ ClearRejected
    \/ \E index \in -1 .. Len(Queue) : RemoveItem(index)
    \/ RemoveItemRejected

SpecBatch == Init /\ [][NextBatch]_vars

(***************************************************************************)
(* App (part_002): the batch handlers bound in bindEvents.  App never      *)
(* calls BatchProcessor.processBatch; its own processBatch walks the       *)
(* array it read from batchProcessor.queue when it was called.             *)
(***************************************************************************)
\* handleFileSelect(files) in batch mode
HandleFileSelect(files) ==
    /\ Len(files) # 0
    /\ AddFiles(files)

\* removeBatchItem(index), from the remove button of row index
RemoveBatchItem(index) ==
    /\ index \in 0 .. Len(Queue) - 1
    /\ RemoveItem(index)

\* clearBatch()
ClearBatch == Clear

\* the head of the for loop of App.processBatch at index i
AppLoopHead(l, i, arr, its, completed, errors) ==
    IF i < Len(arrays[arr])
    THEN LET id == arrays[arr][i + 1]
         IN /\ items' = [its EXCEPT ![id].status = "processing"]
            /\ loops' = [loops EXCEPT ![l] =
                           [pc |-> "load", i |-> i, arr |-> arr, item |-> id,
                            completed |-> completed, errors |-> errors,
                            cb |-> {}]]
    ELSE /\ items' = its
         /\ loops' = [loops EXCEPT ![l] =
                        [@ EXCEPT !.pc = "done", !.i = i, !.arr = arr,
                                  !.completed = completed, !.errors = errors]]

\* App.processBatch(): the click handler, up to the first await or the return
AppProcessBatch(l) ==
    /\ loops[l].pc \in {"idle", "done"}
    /\ Len(Queue) # 0
    /\ AppLoopHead(l, 0, queue, items, 0, 0)
    /\ UNCHANGED <<arrays, queue, results, isProcessing, currentIndex, thrown>>
    /\ UNCHANGED <<runVars, callVars>>

\* await Utils.loadImageFromFile settles
AppLoadSettled(l) ==
    LET it == loops[l]
    IN /\ it.pc = "load"
       /\ IF LoadRejects(items[it.item].file)
          THEN AppLoopHead(l, it.i + 1, it.arr,
                           Caught(items, it.item, MessageOfEvent),
                           it.completed, it.errors + 1)
          ELSE /\ loops' = [loops EXCEPT ![l].pc = "process"]
               /\ UNCHANGED items
       /\ UNCHANGED <<arrays, queue, results, isProcessing, currentIndex, thrown>>
    /\ UNCHANGED <<runVars, callVars>>

\* await processor.process settles
AppProcessSettled(l) ==
    LET it == loops[l]
        file == items[it.item].file
    IN /\ it.pc = "process"
       /\ IF ProcessRejects(file)
          THEN AppLoopHead(l, it.i + 1, it.arr,
                           Caught(items, it.item, MessageOfPipelineError),
                           it.completed, it.errors + 1)
          ELSE IF NoRegions(file)
          THEN AppLoopHead(l, it.i + 1, it.arr,
                           Caught(items, it.item, "No regions detected"),
                           it.completed, it.errors + 1)
          ELSE /\ loops' = [loops EXCEPT ![l].pc = "pbnImg"]
               /\ UNCHANGED items
       /\ UNCHANGED <<arrays, queue, results, isProcessing, currentIndex, thrown>>
    /\ UNCHANGED <<runVars, callVars>>

\* await this.svgToImage(svg) settles
AppPbnImage(l) ==
    /\ loops[l].pc = "pbnImg"
    /\ loops' = [loops EXCEPT ![l].pc = "legendImg"]
    /\ UNCHANGED <<items, arrays, queue, results, isProcessing, currentIndex, thrown>>
    /\ UNCHANGED <<runVars, callVars>>

\* await this.svgToImage(legend) settles; the PNG is rendered and downloaded
AppLegendImage(l) ==
    /\ loops[l].pc = "legendImg"
    /\ loops' = [loops EXCEPT ![l].pc = "delay"]
    /\ UNCHANGED <<items, arrays, queue, results, isProcessing, currentIndex, thrown>>
    /\ UNCHANGED <<runVars, callVars>>

\* the 800 ms timer between downloads fires
AppDelayDone(l) ==
    LET it == loops[l]
    IN /\ it.pc = "delay"
       /\ AppLoopHead(l, it.i + 1, it.arr,
                      [items EXCEPT ![it.item].status = "completed"],
                      it.completed + 1, it.errors)
       /\ UNCHANGED <<arrays, queue, results, isProcessing, currentIndex, thrown>>
    /\ UNCHANGED <<runVars, callVars>>

\* the batch tab: selections, removals, clears and clicks on processBatchBtn
NextApp ==
    \/ \E files \in FileLists : HandleFileSelect(files)
    \/ \E index \in 0 .. MaxFiles : RemoveBatchItem(index)
    \/ ClearBatch
    \/ \E l \in Loops :
         \/ AppProcessBatch(l)
         \/ AppLoadSettled(l)
         \/ AppProcessSettled(l)
         \/ AppPbnImage(l)
         \/ AppLegendImage(l)
         \/ AppDelayDone(l)

SpecApp == Init /\ [][NextApp]_vars

(***************************************************************************)
(* WatershedProcessor.createMarkers of utils.js: markers from the distance *)
(* transform.  The distance image is a row in which peak k stands at       *)
(* column 2k - 1 with zeros between the peaks.  Thresholds are kept as     *)
(* numerators over 200, so that 0.5 * threshold stays an integer.          *)
(***************************************************************************)
\* getComplexityThreshold(complexity), in percent
GetComplexityThreshold(complexity) ==
    CASE complexity = "low" -> 60
      [] complexity = "medium" -> 40
      [] complexity = "high" -> 20
      [] complexity = "extreme" -> 5
      [] OTHER -> 40

\* heights a peak of the distance transform may have
PeakHeights == {1, 4}

DistRowOf(peaks) ==
    [p \in 1 .. 2 * Len(peaks) |-> IF p % 2 = 1 THEN peaks[(p + 1) \div 2] ELSE 0]

\* the distance images createMarkers is checked on
DistRows ==
    { DistRowOf(peaks) : peaks \in UNION { [1 .. n -> PeakHeights] : n \in 1 .. MaxPeaks } }

\* the scan for maxVal, which starts from 0
MaxValOf(dist) ==
    IF \A p \in DOMAIN dist : dist[p] <= 0 THEN 0
    ELSE CHOOSE v \in { dist[p] : p \in DOMAIN dist } : \A q \in DOMAIN dist : dist[q] <= v

\* cv.threshold(dist, sureFg, t, 255, THRESH_BINARY), t = t200 / 200
ThresholdBinary(dist, t200) == [p \in DOMAIN dist |-> dist[p] * 200 > t200]

\* cv.connectedComponents on a row: the labels it returns count the background
ConnectedComponentsCount(fg) ==
    1 + Cardinality({ p \in DOMAIN fg : fg[p] /\ (p = 1 \/ ~fg[p - 1]) })

\* "if (numMarkers < 10)"
TooFewMarkers(numMarkers) == numMarkers < 10

\* createMarkers(quantized, complexity): the thresholds it labelled the
\* foreground with, in order, and the marker count it ends with
DistanceCreateMarkers(dist, complexity) ==
    LET threshold == MaxValOf(dist) * GetComplexityThreshold(complexity) * 2
        numMarkers == ConnectedComponentsCount(ThresholdBinary(dist, threshold))
        lowerThreshold == threshold \div 2
        retriedMarkers == ConnectedComponentsCount(ThresholdBinary(dist, lowerThreshold))
    IN IF TooFewMarkers(numMarkers)
       THEN [thresholds |-> <<threshold, lowerThreshold>>, numMarkers |-> retriedMarkers]
       ELSE [thresholds |-> <<threshold>>, numMarkers |-> numMarkers]

\* the stage of process() that throws in a call, if any
FailPoints == {"none", "preprocess", "quantize", "markers", "watershed", "extract"}

\* the delete() calls process() of utils.js makes on quantized, labels,
\* markers and watershedMap, in order: none when preprocessing or
\* quantization throws, else those of the catch block of the failing stage
\* or of the final cleanup
DistanceDeleteCalls(failsAt) ==
    CASE failsAt \in {"preprocess", "quantize"} -> <<>>
      [] failsAt = "markers" -> <<"quantized", "labels">>
      [] failsAt = "watershed" -> <<"quantized", "labels", "markers">>
      [] OTHER -> <<"quantized", "labels", "markers", "watershedMap">>

\* createMarkers returns a CV_32S Mat, so applyWatershed returns the marker
\* Mat itself ("let markers32 = markers"): watershedMap is markers
MatOf(name) == IF name = "watershedMap" THEN "markers" ELSE name

\* how many times delete() is called on each Mat
DeleteCounts(calls) ==
    [b \in {"quantized", "labels", "markers"} |->
        Cardinality({ k \in DOMAIN calls : MatOf(calls[k]) = b })]

\* process(imageData, options) of utils.js; delete() on a Mat that is
\* already deleted throws, so a call that gets to the final cleanup rejects
DistanceProcess(dist, complexity, failsAt) ==
    LET deletes == DeleteCounts(DistanceDeleteCalls(failsAt))
    IN [deletes |-> deletes,
        numMarkers |-> IF failsAt \in {"preprocess", "quantize", "markers"} THEN 0
                       ELSE DistanceCreateMarkers(dist, complexity).numMarkers,
        outcome |-> IF failsAt = "none" /\ \A b \in DOMAIN deletes : deletes[b] <= 1
                    THEN "resolved" ELSE "rejected"]

InitDistanceMarkers ==
    /\ IdleRuns
    /\ EmptyBatch
    /\ \E dist \in DistRows, complexity \in Complexities :
         \/ input = Some([fn |-> "createMarkers", dist |-> dist,
                          complexity |-> complexity, failsAt |-> "none"])
         \/ \E failsAt \in FailPoints :
              input = Some([fn |-> "process", dist |-> dist,
                            complexity |-> complexity, failsAt |-> failsAt])
    /\ output = None

\* process of utils.js is called and settles
DistanceProcessCall ==
    /\ input # None
    /\ The(input).fn = "process"
    /\ output = None
    /\ output' = Some(DistanceProcess(The(input).dist, The(input).complexity,
                                      The(input).failsAt))
    /\ UNCHANGED <<input, runVars, batchVars>>

\* createMarkers is called and returns
DistanceMarkersCall ==
    /\ input # None
    /\ The(input).fn = "createMarkers"
    /\ output = None
    /\ output' = Some(DistanceCreateMarkers(The(input).dist, The(input).complexity))
    /\ UNCHANGED <<input, runVars, batchVars>>

NextDistanceMarkers == DistanceMarkersCall \/ DistanceProcessCall

SpecDistanceMarkers == InitDistanceMarkers /\ [][NextDistanceMarkers]_vars

(***************************************************************************)
(* SVGGenerator.contourToPathData and createRegionPath (svgGenerator.js).  *)
(* A path string is the sequence of its commands; the control points of a  *)
(* curve, printed with toFixed(2), are kept in hundredths.                 *)
(***************************************************************************)
\* the points a contour is made of
Points == [x : 0 .. MaxCoord, y : 0 .. MaxCoord]

Contours == UNION { [1 .. n -> Points] : n \in 0 .. MaxPoints }

\* "pt = i => contour[(i + n) % n]", for i in -1 .. n + 1
PtClamped(contour, i) == contour[Max2(0, Min2(i, Len(contour) - 1)) + 1]
Pt(contour, i) == contour[((i + Len(contour)) % Len(contour)) + 1]

\* (a + d * alpha / 3).toFixed(2) with alpha = 0.5, in hundredths: the
\* fraction of 50 * d / 3 is never one half, so rounding is to the nearest
ControlCoord(a, d) == 100 * a + ((100 * d + 3) \div 6)

\* catmullToBezier(p0, p1, p2, p3)
CatmullToBezier(p0, p1, p2, p3) ==
    [cp1 |-> <<ControlCoord(p1.x, p2.x - p0.x), ControlCoord(p1.y, p2.y - p0.y)>>,
     cp2 |-> <<ControlCoord(p2.x, -(p3.x - p1.x)), ControlCoord(p2.y, -(p3.y - p1.y))>>]

MoveTo(p) == [op |-> "M", to |-> p]
LineTo(p) == [op |-> "L", to |-> p]
CurveTo(b, p) == [op |-> "C", cp1 |-> b.cp1, cp2 |-> b.cp2, to |-> p]
ClosePath == [op |-> "Z"]

\* contourToPathData(contour); the empty string is the empty sequence
ContourToPathData(contour) ==
    LET n == Len(contour)
    IN IF n = 0 THEN <<>>
       ELSE IF n < 3
       THEN <<MoveTo(contour[1])>>
            \o [i \in 1 .. n - 1 |-> LineTo(contour[i + 1])]
            \o <<ClosePath>>
       ELSE <<MoveTo(Pt(contour, 0))>>
            \o [k \in 1 .. n |->
                  LET i == k - 1
                  IN CurveTo(CatmullToBezier(Pt(contour, i - 1), Pt(contour, i),
                                             Pt(contour, i + 1), Pt(contour, i + 2)),
                             Pt(contour, i + 1))]
            \o <<ClosePath>>

\* createRegionPath(region, style): the d attribute of the path element
CreateRegionPath(region) == ContourToPathData(region.contour)

InitPath ==
    /\ IdleRuns
    /\ EmptyBatch
    /\ \E contour \in Contours :
         \/ input = Some([fn |-> "contourToPathData", contour |-> contour])
         \/ input = Some([fn |-> "createRegionPath", contour |-> contour])
    /\ output = None

\* contourToPathData is called and returns
ContourToPathDataCall ==
    /\ input # None
    /\ The(input).fn = "contourToPathData"
    /\ output = None
    /\ output' = Some(ContourToPathData(The(input).contour))
    /\ UNCHANGED <<input, runVars, batchVars>>

\* createRegionPath is called for a region and returns
CreateRegionPathCall ==
    /\ input # None
    /\ The(input).fn = "createRegionPath"
    /\ output = None
    /\ output' = Some(CreateRegionPath(The(input)))
    /\ UNCHANGED <<input, runVars, batchVars>>

NextPath == ContourToPathDataCall \/ CreateRegionPathCall

SpecPath == InitPath /\ [][NextPath]_vars

(***************************************************************************)
(* RegionExtractor.simplifyContour (svgGenerator.js): cv.approxPolyDP on a *)
(* closed curve, as Douglas-Peucker between the first point and the point  *)
(* farthest from it.                                                       *)
(***************************************************************************)
\* the default of the epsilon parameter of simplifyContour
Epsilon == 2

Sq(v) == v * v

\* squared distance between two points
Dist2(p, q) == Sq(p.x - q.x) + Sq(p.y - q.y)

\* p is farther than eps from the chord a-b
FartherThan(p, a, b, eps) ==
    IF a = b THEN Dist2(p, a) > Sq(eps)
    ELSE Sq((b.x - a.x) * (p.y - a.y) - (b.y - a.y) * (p.x - a.x)) > Sq(eps) * Dist2(a, b)

\* how far p is from the chord a-b, on a scale that orders the points of one chord
Deviation(p, a, b) ==
    IF a = b THEN Dist2(p, a)
    ELSE Sq((b.x - a.x) * (p.y - a.y) - (b.y - a.y) * (p.x - a.x))

\* the indices kept strictly between i and j of the closed sequence pts
RECURSIVE DouglasPeucker(_, _, _, _)
DouglasPeucker(pts, i, j, eps) ==
    IF j - i < 2 THEN <<>>
    ELSE LET k == CHOOSE m \in i + 1 .. j - 1 :
                    \A o \in i + 1 .. j - 1 :
                        \/ Deviation(pts[o], pts[i], pts[j]) < Deviation(pts[m], pts[i], pts[j])
                        \/ /\ Deviation(pts[o], pts[i], pts[j]) = Deviation(pts[m], pts[i], pts[j])
                           /\ m <= o
         IN IF FartherThan(pts[k], pts[i], pts[j], eps)
            THEN DouglasPeucker(pts, i, k, eps) \o <<k>> \o DouglasPeucker(pts, k, j, eps)
            ELSE <<>>

\* cv.approxPolyDP(points, approx, epsilon, true)
ApproxPolyDP(contour, eps) ==
    LET n == Len(contour)
        pts == Append(contour, contour[1])
        f == CHOOSE m \in 1 .. n :
                \A o \in 1 .. n :
                    \/ Dist2(contour[o], contour[1]) < Dist2(contour[m], contour[1])
                    \/ Dist2(contour[o], contour[1]) = Dist2(contour[m], contour[1]) /\ m <= o
        kept == IF f = 1 THEN <<1>>
                ELSE <<1>> \o DouglasPeucker(pts, 1, f, eps) \o <<f>>
                         \o DouglasPeucker(pts, f, n + 1, eps)
    IN [k \in 1 .. Len(kept) |-> contour[kept[k]]]

\* simplifyContour(contour, epsilon) with OpenCV loaded
SimplifyContour(contour, epsilon) ==
    IF Len(contour) < 3 THEN contour ELSE ApproxPolyDP(contour, epsilon)

(***************************************************************************)
(* The two resizes: preprocessImage (part_002) and Utils.resizeImage       *)
(* (utils.js), called on their own with any size and any maxSize.          *)
(***************************************************************************)
\* preprocessImage(imageData, maxSize): the size of the ImageData it returns,
\* or the exception of cv.resize
PreprocessImage(w, h, maxSize) ==
    LET size == PreprocessedSize(w, h, maxSize)
    IN IF NeedsResize(w, h, maxSize) /\ ~ResizeAccepts(size)
       THEN [kind |-> "throws", w |-> size.w, h |-> size.h]
       ELSE [kind |-> "image", w |-> size.w, h |-> size.h]

\* Utils.resizeImage(image, maxSize): the size of the canvas it draws on;
\* canvas.width = v keeps the integer part of v
ResizeImage(w, h, maxSize) ==
    IF w > h /\ w > maxSize
    THEN [kind |-> "image", w |-> maxSize, h |-> (h * maxSize) \div w]
    ELSE IF h > maxSize
    THEN [kind |-> "image", w |-> (w * maxSize) \div h, h |-> maxSize]
    ELSE [kind |-> "image", w |-> w, h |-> h]

InitResize ==
    /\ IdleRuns
    /\ EmptyBatch
    /\ \E w \in 1 .. MaxSide, h \in 1 .. MaxSide, maxSize \in 1 .. MaxSide,
          fn \in {"preprocessImage", "resizeImage"} :
         input = Some([fn |-> fn, w |-> w, h |-> h, maxSize |-> maxSize])
    /\ output = None

\* preprocessImage is called and returns or throws
PreprocessImageCall ==
    /\ input # None
    /\ The(input).fn = "preprocessImage"
    /\ output = None
    /\ output' = Some(PreprocessImage(The(input).w, The(input).h, The(input).maxSize))
    /\ UNCHANGED <<input, runVars, batchVars>>

\* Utils.resizeImage is called and returns
ResizeImageCall ==
    /\ input # None
    /\ The(input).fn = "resizeImage"
    /\ output = None
    /\ output' = Some(ResizeImage(The(input).w, The(input).h, The(input).maxSize))
    /\ UNCHANGED <<input, runVars, batchVars>>

NextResize == PreprocessImageCall \/ ResizeImageCall

SpecResize == InitResize /\ [][NextResize]_vars

(***************************************************************************)
(* ColorQuantizer.quantize: the palette.  Two classes of that name are in  *)
(* the sources: colorQuantizer.js averages the RGB of each cluster's       *)
(* pixels, the one in svgGenerator.js converts the k-means centres back    *)
(* from Lab.  Pixels are black or white.                                   *)
(***************************************************************************)
MaxPixels == 3

Black == <<0, 0, 0>>
White == <<255, 255, 255>>
Gray == <<128, 128, 128>>
PixelColours == {Black, White}
Channels == 1 .. 3

\* the pixels "label" selects: indices of the samples of one cluster
ClusterOf(labs, label) == { i \in DOMAIN labs : labs[i] = label }

\* colorSums[label]: the channel sums and the count of one cluster
ColorSums(pixels, labs, label) ==
    LET members == SelectSeq([i \in DOMAIN pixels |-> i], LAMBDA i : labs[i] = label)
    IN [sum |-> [c \in Channels |->
                    SumSeq([k \in DOMAIN members |-> pixels[members[k]][c]])],
        count |-> Len(members)]

\* Math.round(sum / count) of non-negative integers: halves round up
Rounded(sum, count) == (2 * sum + count) \div (2 * count)

\* "sum.count > 0 ? {rounded averages} : {r: 128, g: 128, b: 128}"
AvgRgb(sums) ==
    IF sums.count > 0
    THEN [c \in Channels |-> Rounded(sums.sum[c], sums.count)]
    ELSE Gray

\* the palette colorQuantizer.js builds
QuantizePalette(pixels, labs, numColors) ==
    [i \in 1 .. numColors |->
        [id |-> i, rgb |-> AvgRgb(ColorSums(pixels, labs, i - 1))]]

\* cv.cvtColor(rgb, lab, COLOR_RGB2Lab) on 8-bit data: L scaled to 0..255,
\* a and b offset by 128
RgbToLab8(rgb) == IF rgb = Black THEN <<0, 128, 128>> ELSE <<255, 128, 128>>

\* labToRgb(l, 128, 128) for l = 255 * whites / count, the centres a cluster
\* of black and white pixels can have; the function takes the 8-bit values
\* as L in 0..100 and signed a, b.  sixtieths is 60 * whites / count.
LabToRgbOnGrayAxis(sixtieths) ==
    CASE sixtieths = 0 -> <<132, 0, 0>>
      [] sixtieths \in 1 .. 20 -> <<255, 0, 0>>
      [] sixtieths = 24 -> <<255, 78, 0>>
      [] sixtieths = 30 -> <<255, 187, 53>>
      [] sixtieths = 36 -> <<255, 255, 140>>
      [] sixtieths = 40 -> <<255, 255, 192>>
      [] OTHER -> White

\* centers.floatAt(i, *): the mean of the Lab samples of cluster i, then
\* labToRgb of it
CenterRgb(pixels, labs, label) ==
    LET members == ClusterOf(labs, label)
        whites == Cardinality({ i \in members : RgbToLab8(pixels[i])[1] = 255 })
    IN LabToRgbOnGrayAxis((60 * whites) \div Cardinality(members))

\* the palette the quantize of svgGenerator.js builds
QuantizePaletteFromCenters(pixels, labs, numColors) ==
    [i \in 1 .. numColors |->
        [id |-> i, rgb |-> CenterRgb(pixels, labs, i - 1)]]

InitPalette ==
    /\ IdleRuns
    /\ EmptyBatch
    /\ \E n \in 1 .. MaxPixels, numColors \in 1 .. MaxK,
          fn \in {"quantize", "quantizeFromCenters"} :
         \E pixels \in [1 .. n -> PixelColours], labs \in [1 .. n -> 0 .. (numColors - 1)] :
            input = Some([fn |-> fn, pixels |-> pixels, labs |-> labs,
                          numColors |-> numColors])
    /\ output = None

\* ColorQuantizer.quantize of colorQuantizer.js returns its palette
QuantizeCall ==
    /\ input # None
    /\ The(input).fn = "quantize"
    /\ output = None
    /\ output' = Some(QuantizePalette(The(input).pixels, The(input).labs,
                                      The(input).numColors))
    /\ UNCHANGED <<input, runVars, batchVars>>

\* ColorQuantizer.quantize of svgGenerator.js returns its palette; cv.kmeans
\* leaves no cluster empty
QuantizeFromCentersCall ==
    /\ input # None
    /\ The(input).fn = "quantizeFromCenters"
    /\ output = None
    /\ \A l \in 0 .. (The(input).numColors - 1) : ClusterOf(The(input).labs, l) # {}
    /\ output' = Some(QuantizePaletteFromCenters(The(input).pixels, The(input).labs,
                                                 The(input).numColors))
    /\ UNCHANGED <<input, runVars, batchVars>>

NextPalette == QuantizeCall \/ QuantizeFromCentersCall

SpecPalette == InitPalette /\ [][NextPalette]_vars

(***************************************************************************)
(* Properties                                                              *)
(***************************************************************************)
RegionIds(regs) == { regs[i].id : i \in DOMAIN regs }
PositivePixels(wm) == { p \in DOMAIN wm : wm[p] > 0 }
LabelCount(wm, l) == Cardinality({ p \in DOMAIN wm : wm[p] = l })
Returned(r) == regions[r] # None

\* C1: the pixel sets of the regions extractRegions returns are pairwise
\* disjoint, and each holds only pixels of the label map with a positive
\* label: no pixel carrying -1 or 0 is in any region.
C1_RegionsDisjointPositive ==
    \A r \in Runs :
        Returned(r) =>
            LET regs == The(regions[r])
                wm == The(wmap[r])
            IN /\ \A i, j \in DOMAIN regs :
                     i # j => regs[i].mask \cap regs[j].mask = {}
               /\ \A i \in DOMAIN regs :
                     /\ regs[i].mask # {}
                     /\ regs[i].mask \subseteq PositivePixels(wm)

\* two regions returned from a map that also holds a boundary and an unknown pixel
C1_Witness ==
    /\ Returned(1)
    /\ Len(The(regions[1])) >= 2
    /\ \E p, q \in DOMAIN The(wmap[1]) : The(wmap[1])[p] = -1 /\ The(wmap[1])[q] = 0

\* C2: every region of a resolved run has a colorId in 1..K (K the palette
\* length) equal to the entry the marker-to-colour map built by createMarkers
\* of the same run holds for the region's id, and its color is the palette
\* entry at that 1-based index.
C2_ColorIdFromOwnMap ==
    \A r \in Runs :
        pc[r] = "resolved" =>
            LET regs == The(regions[r])
                pal == The(palette[r])
                own == The(built[r])
            IN \A i \in DOMAIN regs :
                 /\ regs[i].colorId \in 1 .. Len(pal)
                 /\ regs[i].id \in DOMAIN own
                 /\ regs[i].colorId = own[regs[i].id]
                 /\ regs[i].color = Some(pal[regs[i].colorId])

\* a resolved run with regions of two different colours, after an overlap in
\* which the other run built a different map
C2_Witness ==
    /\ overlapped
    /\ pc[1] = "resolved"
    /\ pc[2] = "resolved"
    /\ built[1] # built[2]
    /\ \E i, j \in DOMAIN The(regions[1]) :
          The(regions[1])[i].colorId # The(regions[1])[j].colorId

\* C3: a label with fewer than minRegionSize pixels is in no returned region;
\* a label with minRegionSize pixels or more is returned.
C3_MinSizeBoundary ==
    \A r \in Runs :
        Returned(r) =>
            LET regs == The(regions[r])
                wm == The(wmap[r])
                min == The(args[r]).minRegionSize
            IN \A l \in { wm[p] : p \in PositivePixels(wm) } :
                 /\ LabelCount(wm, l) <= min - 1 => l \notin RegionIds(regs)
                 /\ LabelCount(wm, l) >= min => l \in RegionIds(regs)

\* one label one pixel short of the minimum is dropped, another exactly at
\* the minimum is kept
C3_Witness ==
    /\ Returned(1)
    /\ LET wm == The(wmap[1])
           min == The(args[1]).minRegionSize
       IN \E a, b \in 1 .. MaxLabel :
            /\ LabelCount(wm, a) = min - 1 /\ LabelCount(wm, a) >= 1
            /\ LabelCount(wm, b) = min
            /\ a \notin RegionIds(The(regions[1]))
            /\ b \in RegionIds(The(regions[1]))

\* C4: when two runs on one processor overlap, the marker-to-colour map
\* extractRegions of a run reads is the one createMarkers of that run built.
C4_ReadsOwnMap ==
    \A r \in Runs : used[r] # None => used[r] = built[r]

\* both runs overlapped, built different maps, and each has read its map
C4_Witness ==
    /\ overlapped
    /\ used[1] # None
    /\ used[2] # None
    /\ built[1] # built[2]

\* statuses an item ends in
Terminal(st) == st \in {"completed", "error"}

\* C5: in a batch run a failing item does not abort the batch: every queue
\* item with status 'error' has an error message recorded on it, and while
\* the run is at index i every item before i has reached 'completed' or
\* 'error' (the loop went on past the failures).
C5_ErrorRecordedBatchContinues ==
    /\ \A k \in 1 .. Len(Queue) :
         items[Queue[k]].status = "error"
             => items[Queue[k]].error \notin {"null", "undefined"}
    /\ isProcessing =>
         \A k \in 1 .. loops[1].i : Terminal(items[Queue[k]].status)

\* queue items shown as 'processing'
ProcessingItems == { k \in 1 .. Len(Queue) : items[Queue[k]].status = "processing" }

\* invocations of processBatch that are inside an item's pipeline
InPipeline ==
    { l \in Loops : loops[l].pc \in {"load", "process", "pbnImg", "legendImg", "delay"} }

\* C6: batch processing is strictly sequential whatever the user does, a
\* second request to process the batch included: at most one queue item has
\* status 'processing' and at most one item pipeline is running.
C6_StrictlySequential ==
    /\ Cardinality(ProcessingItems) <= 1
    /\ Cardinality(InPipeline) <= 1

\* C7: whenever a run has ended, resolved or rejected, none of the OpenCV
\* buffers it allocated is left unreleased.
C7_AllBuffersReleased ==
    \A r \in Runs : pc[r] \in {"resolved", "rejected"} => live[r] = {}

ZeroSeeds(r) == markers[r] # None /\ \A p \in DOMAIN The(markers[r]) : The(markers[r])[p] = 0

\* C8: a run whose marker map holds no seed fails: it never resolves with a
\* normal result.
C8_ZeroSeedsNeverResolves ==
    \A r \in Runs : ZeroSeeds(r) => pc[r] # "resolved"

InvalidCall(r) ==
    /\ args[r] # None
    /\ \/ The(args[r]).colorCount <= 0
       \/ The(args[r]).w = 0
       \/ The(args[r]).h = 0

C9_WitnessEmptyImage ==
    /\ InvalidCall(1)
    /\ The(args[1]).w = 0
    /\ The(args[1]).colorCount > 0
    /\ pc[1] = "rejected"

\* C10: when extractRegions returns no region the run does not throw: it
\* goes on to resolve with the empty region list, the palette and the size.
C10_NoRegionsIsSoft ==
    \A r \in Runs :
        (Returned(r) /\ The(regions[r]) = <<>>) =>
            /\ pc[r] \in {"finish", "resolved"}
            /\ err[r] = "none"
            /\ pc[r] = "resolved" => (palette[r] # None /\ pre[r] # None)

\* a run resolved with no region although the label map held labels
C10_Witness ==
    /\ pc[1] = "resolved"
    /\ The(regions[1]) = <<>>
    /\ PositivePixels(The(wmap[1])) # {}

\* the prefixes process() puts before the error of a stage
StageAnnotations ==
    {"Image preprocessing failed", "Color quantization failed",
     "Marker creation failed", "Watershed algorithm failed",
     "Region extraction failed"}

\* C11: every error process() throws to its caller carries the name of the
\* stage it originated in: a rejected run's error has one of the five stage
\* prefixes.
C11_ErrorsAnnotatedWithStage ==
    \A r \in Runs : pc[r] = "rejected" => err[r] \in StageAnnotations

\* the percents process() reports, in the order of its updateProgress calls
Percents == <<0, 20, 40, 60, 80, 100>>

\* the moves of a run from one position of process() to the next
StageOrder ==
    {<<"idle", "pre">>, <<"idle", "rejected">>,
     <<"pre", "quantize">>, <<"pre", "preThrown">>, <<"preThrown", "rejected">>,
     <<"quantize", "markers">>, <<"quantize", "rejected">>,
     <<"markers", "watershed">>, <<"markers", "rejected">>,
     <<"watershed", "extract">>, <<"watershed", "rejected">>,
     <<"extract", "finish">>, <<"extract", "rejected">>,
     <<"finish", "resolved">>}

\* a stage is entered with the output of the stage before it and without
\* an output of its own
StageInputsReady(r) ==
    /\ pc[r] = "pre" => pre[r] = None
    /\ pc[r] = "quantize" => pre[r] # None /\ labels[r] = None
    /\ pc[r] = "markers" => labels[r] # None /\ markers[r] = None
    /\ pc[r] = "watershed" => markers[r] # None /\ wmap[r] = None
    /\ pc[r] = "extract" => wmap[r] # None /\ regions[r] = None

ReportsInOrder(r) ==
    /\ Len(progress[r]) <= Len(Percents)
    /\ progress[r] = SubSeq(Percents, 1, Len(progress[r]))

AllStagesSucceeded(r) ==
    /\ pre[r] # None
    /\ labels[r] # None
    /\ markers[r] # None
    /\ wmap[r] # None
    /\ regions[r] # None

\* C12: within a run the stages execute in the order preprocess, quantize,
\* create markers, watershed, extract regions, each after the one before it
\* has completed and none twice; the progress reports are 0, 20, 40, 60, 80,
\* 100 in this order, and 100 is reported only when all five stages succeeded.
C12_StagesAndReportsInOrder ==
    /\ [](\A r \in Runs :
            /\ StageInputsReady(r)
            /\ ReportsInOrder(r)
            /\ (Len(progress[r]) = Len(Percents)) => AllStagesSucceeded(r))
    /\ [][\A r \in Runs :
            pc'[r] # pc[r] => <<pc[r], pc'[r]>> \in StageOrder]_vars

\* a run that went through the five stages and reported 100
C12_Witness ==
    /\ pc[1] = "resolved"
    /\ progress[1] = Percents
    /\ AllStagesSucceeded(1)

\* the labels of a label map the minimum-size filter drops
DroppedLabels(wm, min) ==
    { l \in { wm[p] : p \in PositivePixels(wm) } : LabelCount(wm, l) < min }

C14_NoAutomaticRetry ==
    (output # None /\ The(input).fn = "createMarkers") =>
        Len(The(output).thresholds) <= 1

\* the path a call of contourToPathData returned, with its contour
PathReturned == output # None /\ The(input).fn = "contourToPathData"

\* C15: contourToPathData returns a closed path for every non-empty
\* contour: a move to the first point first and a close command last; with
\* fewer than 3 points only line segments between them, with n >= 3 points
\* exactly n cubic segments, the i-th (from 0) ending at point (i + 1) mod n,
\* so that the last one returns to the first point.
C15_ClosedPath ==
    PathReturned =>
        LET contour == The(input).contour
            n == Len(contour)
            d == The(output)
        IN n > 0 =>
             /\ d[1].op = "M" /\ d[1].to = contour[1]
             /\ d[Len(d)].op = "Z"
             /\ n < 3 =>
                   /\ Len(d) = n + 1
                   /\ \A k \in 2 .. n : d[k].op = "L" /\ d[k].to = contour[k]
             /\ n >= 3 =>
                   /\ Len(d) = n + 2
                   /\ \A i \in 0 .. n - 1 :
                         /\ d[i + 2].op = "C"
                         /\ d[i + 2].to = contour[((i + 1) % n) + 1]
                   /\ d[n + 1].to = contour[1]

\* a path of curves through a contour whose points differ
C15_Witness ==
    /\ PathReturned
    /\ Len(The(input).contour) >= 3
    /\ The(input).contour[Len(The(input).contour)] # The(input).contour[1]
    /\ The(output)[2].op = "C"

\* a degenerate contour of two points
C15_WitnessLines ==
    /\ PathReturned
    /\ Len(The(input).contour) = 2
    /\ The(output)[2].op = "L"

\* C16: smoothing simplifies first and converts to a spline afterwards: the
\* path createRegionPath builds for a region is the path of the simplified
\* polygon of the region's traced contour, not of the traced contour itself.
C16_SimplifiedBeforeSpline ==
    (output # None /\ The(input).fn = "createRegionPath") =>
        The(output) = ContourToPathData(SimplifyContour(The(input).contour, Epsilon))

\* C17: the tool resizes to the maximum working dimension: for every input
\* size and every maxSize >= 1, preprocessImage and Utils.resizeImage produce
\* an image with both sides in 1 .. maxSize, and an input already within
\* maxSize keeps its size.
C17_ResizedWithinMaxSize ==
    (output # None /\ The(input).fn \in {"preprocessImage", "resizeImage"}) =>
        LET in == The(input)
            out == The(output)
        IN /\ out.kind = "image"
           /\ out.w \in 1 .. in.maxSize
           /\ out.h \in 1 .. in.maxSize
           /\ (in.w <= in.maxSize /\ in.h <= in.maxSize) =>
                 (out.w = in.w /\ out.h = in.h)

\* the pixels of cluster c form one diagonal line, one pixel wide, of two
\* pixels or more
IsDiagonalLine(lab, c, w) ==
    LET S == { p \in DOMAIN lab : lab[p] = c }
    IN /\ Cardinality(S) >= 2
       /\ \E s \in {-1, 1} : \A p, q \in S :
             XOf(p, w) - XOf(q, w) = s * (YOf(p, w) - YOf(q, w))
       /\ \A p \in S : \E q \in S : q # p /\ Adj8(p, q, w)

\* C18: with complexity extreme, a colour whose only pixels form a diagonal
\* line one pixel wide gets no marker: no marker-to-colour entry names it,
\* no seed lies on its pixels, and no returned region has its colorId.
C18_DiagonalLineVanishes ==
    \A r \in Runs :
        (args[r] # None /\ labels[r] # None) =>
            \A c \in 0 .. The(args[r]).colorCount - 1 :
                (The(args[r]).complexity = "extreme"
                 /\ IsDiagonalLine(The(labels[r]), c, The(pre[r]).w)) =>
                    /\ built[r] # None =>
                          \A l \in DOMAIN The(built[r]) : The(built[r])[l] # c + 1
                    /\ markers[r] # None =>
                          \A p \in DOMAIN The(labels[r]) :
                              The(labels[r])[p] = c => The(markers[r])[p] = 0
                    /\ regions[r] # None =>
                          \A i \in DOMAIN The(regions[r]) :
                              The(regions[r])[i].colorId # c + 1

\* a run resolved with regions from an image holding a diagonal line of the
\* first palette colour
C18_Witness ==
    /\ pc[1] = "resolved"
    /\ The(args[1]).complexity = "extreme"
    /\ IsDiagonalLine(The(labels[1]), 0, The(pre[1]).w)
    /\ The(regions[1]) # <<>>

\* the pixels the erosion leaves of cluster c
ErodedOfColour(lab, c, w, h, complexity) ==
    Erode({ q \in DOMAIN lab : lab[q] = c }, w, h, ErodeSize(complexity))

\* C19: after createMarkers the marker ids in use are exactly 1..N: the
\* pixels of an id are one whole connected component of the eroded mask of
\* one colour, the marker-to-colour map has exactly the entries 1..N and maps
\* an id to the 1-based index of that colour, and every pixel outside the
\* eroded components is 0.
C19_MarkerIdsDense ==
    \A r \in Runs :
        (markers[r] # None /\ built[r] # None) =>
            LET mk == The(markers[r])
                m2c == The(built[r])
                lab == The(labels[r])
                a == The(args[r])
                size == The(pre[r])
                ids == { mk[p] : p \in DOMAIN mk } \ {0}
                N == Cardinality(ids)
            IN /\ ids = 1 .. N
               /\ DOMAIN m2c = 1 .. N
               /\ \A c \in { lab[p] : p \in DOMAIN lab } :
                     LET eroded == ErodedOfColour(lab, c, size.w, size.h, a.complexity)
                     IN \A p \in { q \in DOMAIN lab : lab[q] = c } :
                          mk[p] = 0 <=> p \notin eroded
               /\ \A id \in ids :
                     LET first == CHOOSE p \in DOMAIN mk : mk[p] = id
                         eroded == ErodedOfColour(lab, lab[first], size.w, size.h,
                                                  a.complexity)
                     IN /\ { q \in DOMAIN mk : mk[q] = id } = Flood8(eroded, {first}, size.w)
                        /\ m2c[id] = lab[first] + 1
                        /\ m2c[id] \in 1 .. a.colorCount

\* markers of two colours, numbered on from one colour to the next
C19_Witness ==
    /\ markers[1] # None
    /\ built[1] # None
    /\ \E p, q \in DOMAIN The(markers[1]) :
          /\ The(markers[1])[p] > 0
          /\ The(markers[1])[q] > The(markers[1])[p]
          /\ The(labels[1])[p] # The(labels[1])[q]

\* C20: extractRegions builds every mask and pixel count in a single pass:
\* once it has run, the number of full scans it made of the label map is the
\* number it makes of any other label map of the same size, whatever the
\* number of distinct labels in it.
C20_ScansIndependentOfLabels ==
    \A r \in Runs :
        (regions[r] # None /\ wmap[r] # None) =>
            \A other \in [DOMAIN The(wmap[r]) -> {0, 1, 2}] :
                LabelMapScans(other) = LabelMapScans(The(wmap[r]))

\* C21: after applyWatershed every pixel of the label map is the sentinel -1
\* or an id that seeded the marker map (so none is 0 and none is a new id),
\* and a seeded pixel holds its own seed id or the sentinel.
C21_LabelsAreSeedIdsOrSentinel ==
    \A r \in Runs :
        (wmap[r] # None /\ markers[r] # None) =>
            LET mk == The(markers[r])
                wm == The(wmap[r])
                seeds == { mk[p] : p \in DOMAIN mk } \ {0}
            IN \A p \in DOMAIN wm :
                 /\ wm[p] = -1 \/ wm[p] \in seeds
                 /\ mk[p] > 0 => wm[p] \in {mk[p], -1}

\* C22: quantize returns a palette of exactly numColors entries with ids
\* 1..numColors in order; the rgb of entry i is, channel by channel, the
\* average of the RGB of the pixels labelled i - 1 rounded to the nearest
\* integer (halves up), and the gray (128,128,128) when no pixel has that
\* label.
C22_PaletteIsAverageRgb ==
    (input # None /\ output # None
       /\ The(input).fn \in {"quantize", "quantizeFromCenters"}) =>
        LET in == The(input)
            pal == The(output)
        IN /\ DOMAIN pal = 1 .. in.numColors
           /\ \A i \in 1 .. in.numColors :
                LET members == { k \in DOMAIN in.labs : in.labs[k] = i - 1 }
                    n == Cardinality(members)
                    whites == Cardinality({ k \in members : in.pixels[k] = White })
                IN /\ pal[i].id = i
                   /\ n = 0 => pal[i].rgb = Gray
                   /\ n > 0 =>
                        \A c \in Channels :
                           /\ 2 * n * pal[i].rgb[c] <= 2 * 255 * whites + n
                           /\ 2 * 255 * whites + n < 2 * n * (pal[i].rgb[c] + 1)

\* the messages of the errors the guards of BatchProcessor throw
GuardMessages ==
    {"Batch processing already in progress", "Cannot clear queue while processing",
     "Cannot remove item while processing"}

\* C23: while isProcessing is true no call replaces or shortens the queue,
\* resets results or moves currentIndex back (a second processBatch, clear
\* and removeItem do nothing but throw their error); a clear() made while
\* isProcessing is false leaves an empty queue, empty results and
\* currentIndex 0.
C23_GuardedWhileProcessing ==
    [][/\ isProcessing =>
            /\ queue' = queue
            /\ Len(Queue') >= Len(Queue)
            /\ SubSeq(Queue', 1, Len(Queue)) = Queue
            /\ Len(results') >= Len(results)
            /\ SubSeq(results', 1, Len(results)) = results
            /\ currentIndex' >= currentIndex
       /\ (isProcessing /\ thrown' # thrown) =>
            /\ thrown' \in GuardMessages
            /\ UNCHANGED <<items, arrays, queue, results, currentIndex, isProcessing>>
       /\ (~isProcessing /\ queue' # queue) =>
            /\ Queue' = <<>>
            /\ results' = <<>>
            /\ currentIndex' = 0]_vars

\* removeItem has thrown while a batch with a result was in progress
C23_Witness ==
    /\ isProcessing
    /\ thrown = "Cannot remove item while processing"
    /\ results # <<>>
    /\ currentIndex > 0

\* invocations of BatchProcessor.processBatch that are still running
RunningLoops == { l \in Loops : loops[l].pc \in {"load", "process"} }

\* C24: a processBatch call that set isProcessing sets it back: whenever
\* isProcessing is true an invocation of processBatch is still running, so
\* the flag is never left set by a call that has resolved or rejected.
C24_NeverLeftLocked == isProcessing => RunningLoops # {}

\* a step in which invocation l of BatchProcessor.processBatch resolves
Resolves(l) ==
    /\ loops'[l].pc = "done"
    /\ arrays' = arrays
    /\ queue' = queue
    /\ thrown' = thrown
    /\ <<loops, items, results, currentIndex>>' # <<loops, items, results, currentIndex>>

\* C25: when processBatch resolves every item of the queue, those appended
\* by addFiles during the run included, has status 'completed' or 'error'.
C25_AllTerminalAtResolve ==
    [][\A l \in Loops :
          Resolves(l) => \A k \in 1 .. Len(Queue') : Terminal(items'[Queue'[k]].status)]_vars

\* a batch has resolved with a full queue, an item completed and an item failed
C25_Witness ==
    /\ loops[1].pc = "done"
    /\ ~isProcessing
    /\ Len(Queue) = MaxFiles
    /\ \A k \in 1 .. Len(Queue) : Terminal(items[Queue[k]].status)
    /\ \E k \in 1 .. Len(Queue) : items[Queue[k]].status = "completed"
    /\ \E k \in 1 .. Len(Queue) : items[Queue[k]].status = "error"

\* C26: results holds exactly the queue items whose status is 'completed',
\* each once and in queue order, and nothing that is not in the queue.
C26_ResultsAreCompletedInOrder ==
    results = SelectSeq(Queue, LAMBDA id : items[id].status = "completed")

\* C27: every queue item has one of the four statuses, so the counts of
\* getStatus() add up to its total; an item has a result only when its
\* status is 'completed' and an error only when its status is 'error'.
C27_StatusPartitionAndFields ==
    /\ \A k \in 1 .. Len(Queue) :
         LET item == items[Queue[k]]
         IN /\ item.status \in {"pending", "processing", "completed", "error"}
            /\ item.result # "null" => item.status = "completed"
            /\ item.error \notin {"null", "undefined"} => item.status = "error"
    /\ GetStatus.total = GetStatus.completed + GetStatus.processing
                           + GetStatus.pending + GetStatus.errors

\* C28: getStatus() always reports a currentIndex between 0 and total.
C28_CurrentIndexWithinQueue ==
    /\ GetStatus.currentIndex >= 0
    /\ GetStatus.currentIndex <= GetStatus.total

\* C29: on every path through process() no OpenCV buffer is released more
\* than once: no run has deleted a buffer twice, and a call of the process
\* of utils.js has called delete() at most once on each Mat, the marker Mat
\* that is also the watershed result included.
C29_ReleasedAtMostOnce ==
    /\ \A r \in Runs : \A b \in Counted : rel[r][b] <= 1
    /\ (output # None /\ The(input).fn = "process") =>
          \A b \in DOMAIN The(output).deletes : The(output).deletes[b] <= 1

\* C30: every region extractRegions returns has a well-defined centroid:
\* both coordinates are numbers (the zeroth moment they are divided by is
\* not zero) and lie inside the image.
C30_CentroidWellDefined ==
    \A r \in Runs :
        (regions[r] # None /\ pre[r] # None) =>
            \A i \in DOMAIN The(regions[r]) :
                LET size == The(pre[r])
                    centroid == CentroidOf(The(regions[r])[i].mask, size.w)
                IN /\ centroid.x # None
                   /\ centroid.y # None
                   /\ The(centroid.x) \in 0 .. (size.w - 1)
                   /\ The(centroid.y) \in 0 .. (size.h - 1)

====
